---- MODULE Spec2Model ----
(***************************************************************************)
(* Model of DepGraph (src/deps.py): the name index, the type index and the *)
(* set of dependent -> dependency relationships, with every public        *)
(* operation of the class as one atomic action.                            *)
(*                                                                         *)
(* Node objects are compared by identity (Node defines no __eq__), so a    *)
(* node is modelled by its identity, a number in Nodes; NameOf and TypeOf  *)
(* give the fields of the object.  Nodes 1 and 2 are two distinct objects  *)
(* that carry the same name.                                               *)
(***************************************************************************)
EXTENDS Integers, FiniteSets, Sequences, TLC

\* ------------------------------------------------------------------ bounds
MaxDeps == 2      \* longest `dependencies` collection passed to a call
MaxEdges == 2     \* calls that would grow relationships beyond this are not made

\* ----------------------------------------------------------------- objects
\* The Node objects the callers hold: 1 and 2 are two objects constructed
\* with the same name, 3 and 4 have names of their own.
Nodes == {1, 2, 3, 4}
NotANode == 0     \* an object without a `name` attribute (e.g. a plain str)
Objects == Nodes \cup {NotANode}
NoNode == 0 - 1   \* "no node": the None of an absent argument or result
NoName == 0       \* "no name": the None of an absent name argument

\* Node.name: objects 1 and 2 share the name 1, every later object has a
\* name of its own.
NameOf(n) == IF n <= 2 THEN 1 ELSE n - 1

\* Node.dependency_type.type: two produced types, alternating.
TypeOf(n) == n % 2

Names == {NameOf(n) : n \in Nodes}
Types == {TypeOf(n) : n \in Nodes}

VARIABLES
    name_index,      \* DepGraph.name_index: name -> Node
    type_index,      \* DepGraph.type_index: defaultdict(set), type -> set of Node
    relationships,   \* DepGraph.relationships: set of (dependent, dependency)
    last,            \* the call that has just completed (NoCall between calls)
    pre              \* the graph as it was when that call started

\* State of the other components of the repository, each exercised by a
\* specification of its own and left alone by the DepGraph operations.
VARIABLES
    entity,          \* the callable handed to extract_dependencies
    extracted,       \* what extract_dependencies returned for it
    threads,         \* per thread: the line of add_node it is at, and its node
    serialized,      \* whether the host runs every add_node call under a lock
    cursor,          \* a path.Cursor: track and destination
    moved            \* the last Cursor method called, on which cursor, and its error

vars == <<name_index, type_index, relationships, last, pre, entity, extracted,
          threads, serialized, cursor, moved>>
graphvars == <<name_index, type_index, relationships, last, pre>>
extractvars == <<entity, extracted>>
threadvars == <<threads, serialized>>
cursorvars == <<cursor, moved>>

\* The three fields of a DepGraph as one value.
Graph(ni, ti, rel) == [name_index |-> ni, type_index |-> ti, relationships |-> rel]

\* DepGraph.__init__: empty indexes, no relationship.
EmptyGraph == Graph(<<>>, <<>>, {})

\* set(self.name_index.values())
Values(ni) == {ni[k] : k \in DOMAIN ni}

\* set().union(*self.type_index.values())
TypeUnion(ti) == UNION {ti[t] : t \in DOMAIN ti}

\* Variant of line 120 that assigns a fresh one-element set to the bucket
\* instead of adding to it.
TypeIndexAdd_replace(ti, t, dep) ==
    [k \in DOMAIN ti \cup {t} |-> IF k = t THEN {dep} ELSE ti[k]]

\* self.type_index[t].add(dep) on a defaultdict(set): a missing key is
\* created with an empty set first.
TypeIndexAdd(ti, t, dep) ==
    [k \in DOMAIN ti \cup {t} |->
        IF k = t
        THEN (IF t \in DOMAIN ti THEN ti[t] ELSE {}) \cup {dep}
        ELSE ti[k]]

\* self.name_index[name] = dep
NameIndexSet(ni, name, dep) ==
    [k \in DOMAIN ni \cup {name} |-> IF k = name THEN dep ELSE ni[k]]

\* Result of a call: the graph it leaves and the error it raised.
Outcome(g, err) == [g |-> g, err |-> err]

\* Variant of register without the membership test of line 119: a second
\* registration overwrites the name and lands in the type index as well.
register_overwrite(g, dep) ==
    IF dep = NotANode
    THEN Outcome(g, "AttributeError")
    ELSE Outcome(Graph(NameIndexSet(g.name_index, NameOf(dep), dep),
                       TypeIndexAdd(g.type_index, TypeOf(dep), dep),
                       g.relationships),
                 "none")

\* Variant of register with the type_index write of line 120 outside the
\* `if`: only the name_index write is guarded.
register_type_always(g, dep) ==
    IF dep = NotANode
    THEN Outcome(g, "AttributeError")
    ELSE IF NameOf(dep) \notin DOMAIN g.name_index
         THEN Outcome(Graph(NameIndexSet(g.name_index, NameOf(dep), dep),
                            TypeIndexAdd(g.type_index, TypeOf(dep), dep),
                            g.relationships),
                      "none")
         ELSE Outcome(Graph(g.name_index,
                            TypeIndexAdd(g.type_index, TypeOf(dep), dep),
                            g.relationships),
                      "none")

\* add_node, lines 119-124: the registration part.  `dep.name` on an object
\* that has no such attribute raises before anything is written.
register(g, dep) ==
    IF dep = NotANode
    THEN Outcome(g, "AttributeError")
    ELSE IF NameOf(dep) \notin DOMAIN g.name_index
         THEN Outcome(Graph(NameIndexSet(g.name_index, NameOf(dep), dep),
                            TypeIndexAdd(g.type_index, TypeOf(dep), dep),
                            g.relationships),
                      "none")
         ELSE Outcome(g, "none")

\* Variant of the loop without the recursive self.add_node(d) of line 128:
\* the edges are added, the dependencies are not registered.
add_node_loop_noreg(g, dep, ds) ==
    Outcome(Graph(g.name_index, g.type_index,
                  g.relationships \cup {<<dep, ds[i]>> : i \in DOMAIN ds}),
            "none")

\* add_node, lines 126-131: for d in dependencies: self.add_node(d);
\* self.relationships.add((dep, d)).  ds is the collection in iteration
\* order; the loop stops at the first error, keeping what was written.
RECURSIVE add_node_loop(_, _, _)
add_node_loop(g, dep, ds) ==
    IF ds = <<>>
    THEN Outcome(g, "none")
    ELSE LET r == register(g, Head(ds)) IN
         IF r.err # "none"
         THEN r
         ELSE add_node_loop(Graph(r.g.name_index, r.g.type_index,
                                  r.g.relationships \cup {<<dep, Head(ds)>>}),
                            dep, Tail(ds))

\* DepGraph.add_node(dep, dependencies)
add_node(g, dep, ds) ==
    LET r == register(g, dep) IN
    IF r.err # "none" THEN r ELSE add_node_loop(r.g, dep, ds)

\* Variant of add_dependencies that registers each dependency the way
\* add_node does.
add_dependencies_autoreg(g, name, ds) ==
    IF name \notin DOMAIN g.name_index
    THEN Outcome(g, "KeyError")
    ELSE LET reg[S \in SUBSET ds] ==
                 IF S = {} THEN g
                 ELSE LET d == CHOOSE x \in S : TRUE
                      IN register(reg[S \ {d}], d).g
         IN Outcome(Graph(reg[ds].name_index, reg[ds].type_index,
                          g.relationships
                              \cup {<<g.name_index[name], d>> : d \in ds}),
                    "none")

\* DepGraph.add_dependencies(name, dependencies)
add_dependencies(g, name, ds) ==
    IF name \notin DOMAIN g.name_index
    THEN Outcome(g, "KeyError")
    ELSE Outcome(Graph(g.name_index, g.type_index,
                       g.relationships \cup {<<g.name_index[name], d>> : d \in ds}),
                 "none")

\* Variant of add_relationship that looks the names up with dict.get and
\* no assert: an unknown name yields None and the pair is added anyway.
add_relationship_get(g, dependent, dependence, optimized) ==
    LET get(k) == IF k \in DOMAIN g.name_index THEN g.name_index[k] ELSE NoNode
    IN Outcome(Graph(g.name_index, g.type_index,
                     g.relationships \cup {<<get(dependent), get(dependence)>>}),
               "none")

\* Variant of add_relationship with the two ends of the pair swapped.
add_relationship_swapped(g, dependent, dependence, optimized) ==
    IF dependent \notin DOMAIN g.name_index \/ dependence \notin DOMAIN g.name_index
    THEN Outcome(g, IF optimized THEN "KeyError" ELSE "AssertionError")
    ELSE Outcome(Graph(g.name_index, g.type_index,
                       g.relationships
                           \cup {<<g.name_index[dependence], g.name_index[dependent]>>}),
                 "none")

\* Variant of add_relationship that records the pair in both directions.
add_relationship_symmetric(g, dependent, dependence, optimized) ==
    IF dependent \notin DOMAIN g.name_index \/ dependence \notin DOMAIN g.name_index
    THEN Outcome(g, IF optimized THEN "KeyError" ELSE "AssertionError")
    ELSE Outcome(Graph(g.name_index, g.type_index,
                       g.relationships
                           \cup {<<g.name_index[dependent], g.name_index[dependence]>>,
                                 <<g.name_index[dependence], g.name_index[dependent]>>}),
                 "none")

\* Variant of add_relationship with a third assert that rejects a node
\* depending on itself.
add_relationship_noself(g, dependent, dependence, optimized) ==
    IF dependent \notin DOMAIN g.name_index \/ dependence \notin DOMAIN g.name_index
    THEN Outcome(g, IF optimized THEN "KeyError" ELSE "AssertionError")
    ELSE IF dependent = dependence /\ ~optimized
         THEN Outcome(g, "AssertionError")
         ELSE Outcome(Graph(g.name_index, g.type_index,
                            g.relationships
                                \cup {<<g.name_index[dependent],
                                        g.name_index[dependence]>>}),
                      "none")

\* DepGraph.add_relationship(dependent, dependence).  The two asserts are
\* compiled away under `python -O`; the subscripts on line 143 then raise
\* KeyError before the set is touched.
add_relationship(g, dependent, dependence, optimized) ==
    IF dependent \notin DOMAIN g.name_index \/ dependence \notin DOMAIN g.name_index
    THEN Outcome(g, IF optimized THEN "KeyError" ELSE "AssertionError")
    ELSE Outcome(Graph(g.name_index, g.type_index,
                       g.relationships
                           \cup {<<g.name_index[dependent], g.name_index[dependence]>>}),
                 "none")

\* What a query hands back: a node, a set of nodes, or an error.
Answer(node, ret, err) == [node |-> node, ret |-> ret, err |-> err]

\* DepGraph.get_by_name(name)
get_by_name(g, name) ==
    IF name \notin DOMAIN g.name_index
    THEN Answer(NoNode, {}, "KeyError")
    ELSE Answer(g.name_index[name], {}, "none")

\* Variant of get_dependents that filters on the first element of the pair,
\* as get_dependencies does.
get_dependents_forward(g, name) ==
    IF name \notin DOMAIN g.name_index
    THEN Answer(NoNode, {}, "KeyError")
    ELSE Answer(NoNode,
                {e[1] : e \in {x \in g.relationships : x[1] = g.name_index[name]}},
                "none")

\* Variant of get_dependents that compares the name of the dependency
\* (dc.name == name) instead of its identity (dc is node).
get_dependents_by_name(g, name) ==
    IF name \notin DOMAIN g.name_index
    THEN Answer(NoNode, {}, "KeyError")
    ELSE Answer(NoNode,
                {e[1] : e \in {x \in g.relationships : NameOf(x[2]) = name}},
                "none")

\* DepGraph.get_dependents(name)
get_dependents(g, name) ==
    IF name \notin DOMAIN g.name_index
    THEN Answer(NoNode, {}, "KeyError")
    ELSE Answer(NoNode,
                {e[1] : e \in {x \in g.relationships : x[2] = g.name_index[name]}},
                "none")

\* DepGraph.get_dependencies(name)
get_dependencies(g, name) ==
    IF name \notin DOMAIN g.name_index
    THEN Answer(NoNode, {}, "KeyError")
    ELSE Answer(NoNode,
                {e[2] : e \in {x \in g.relationships : x[1] = g.name_index[name]}},
                "none")

\* --------------------------------------------------- extract_dependencies
MaxParams == 2    \* most formal parameters of an entity

\* inspect.Parameter.empty: no annotation, no default.
Empty == "empty"
\* What an annotation, a Dependency.type or a Dependency.factory can be.
TypeObjects == {"int", "str"}
Factories == TypeObjects \cup {"make_b"}

\* Dependency(factory, type), lines 95-97.
Dependency(factory, type) == [factory |-> factory, type |-> type]

\* A parameter default: absent, a plain value, or a Dependency instance.
NoDefault == [kind |-> Empty, factory |-> Empty, type |-> Empty]
PlainDefault == [kind |-> "value", factory |-> Empty, type |-> Empty]
DependencyDefault(d) == [kind |-> "Dependency", factory |-> d.factory, type |-> d.type]
Defaults ==
    {NoDefault, PlainDefault}
        \cup {DependencyDefault(Dependency("make_b", t)) : t \in TypeObjects}

\* inspect.Parameter: annotation and default.
Parameter(annotation, default) == [annotation |-> annotation, default |-> default]
Parameters ==
    {Parameter(a, d) : a \in TypeObjects \cup {Empty}, d \in Defaults}

\* inspect.signature(dependent).parameters: parameter name -> Parameter.
\* Parameter names are the positions 1..n.
Signatures == UNION {[1..n -> Parameters] : n \in 0..MaxParams}

\* The values a caller stores in __dependencies__.
ExplicitMappings ==
    {<<>>,
     <<Dependency("make_b", "int")>>,
     <<Dependency("str", "str"), Dependency("make_b", "str")>>}

\* A callable: whether it has a __dependencies__ attribute, the value of
\* the attribute, and its signature.
Entity(has, explicit, sig) ==
    [has_dependencies |-> has, dependencies |-> explicit, parameters |-> sig]
Entities ==
    {Entity(FALSE, <<>>, sig) : sig \in Signatures}
        \cup {Entity(TRUE, m, sig) : m \in ExplicitMappings, sig \in Signatures}

\* Variant of line 177 that takes the factory from the annotation even when
\* the default is a Dependency.
infer_annotation_only(p) == Dependency(p.annotation, p.annotation)

\* Line 177: the Dependency inferred for one parameter.
infer(p) ==
    Dependency(IF p.default.kind = "Dependency"
               THEN p.default.factory
               ELSE p.annotation,
               p.annotation)

\* Variant of extract_dependencies without the hasattr test of lines
\* 172-173: the signature is always inspected.
extract_dependencies_infer_always(dependent) ==
    [p_name \in DOMAIN dependent.parameters |-> infer(dependent.parameters[p_name])]

\* extract_dependencies(dependent), lines 167-180.
extract_dependencies(dependent) ==
    IF dependent.has_dependencies
    THEN dependent.dependencies
    ELSE [p_name \in DOMAIN dependent.parameters |->
             infer(dependent.parameters[p_name])]

\* Before the call: no entity chosen yet / nothing returned yet.
NoEntity == Entity(FALSE, <<>>, <<>>)
Extracted(done, deps) == [done |-> done, deps |-> deps]
NotExtracted == Extracted(FALSE, <<>>)

\* ------------------------------------------- add_node, line by line
MaxThreads == 2   \* threads of the host that call add_node

Threads == 1..MaxThreads

\* Where a thread is: outside add_node, or about to run line 119, 120 or 121
\* for its node.
At(line, dep) == [line |-> line, dep |-> dep]
Idle == At("idle", NoNode)
AllIdle == [t \in Threads |-> Idle]

\* Variant of line 119 without the membership test.
after_119_always(ni, dep) == "120"

\* Line 119, `if dep.name not in self.name_index`: the line that runs next.
after_119(ni, dep) ==
    IF NameOf(dep) \notin DOMAIN ni THEN "120" ELSE "idle"

\* ------------------------------------------------------------ path.Cursor
MaxTrack == 3     \* forward is not called on a longer track
MaxDest == 3      \* forward and back are not called on a longer destination

\* The object the cursors navigate: nested dicts, numbered.
\* 0 = {"a": 1, "b": 2}, 1 = {"a": 3}, 2 = {}, 3 = {}.
Root == 0
Components == {"a", "b"}
Items ==
    [o \in 0..3 |->
        IF o = 0 THEN [c \in {"a", "b"} |-> IF c = "a" THEN 1 ELSE 2]
        ELSE IF o = 1 THEN [c \in {"a"} |-> 3]
        ELSE <<>>]

\* What a step of navigation gives: a value or an exception.
Got(value, err) == [value |-> value, err |-> err]

\* KeyPath._getter(obj, at), lines 98-102.
getter(obj, at) ==
    IF at \in DOMAIN Items[obj]
    THEN Got(Items[obj][at], "none")
    ELSE Got(obj, "InvalidPath")

\* next(path.follow(obj)), lines 35-39: the value after the first
\* component.
follow_first(path, obj) == getter(obj, path[1])

\* Path.prepend(c), lines 51-52.
prepend(path, c) == <<c>> \o path

\* Cursor(track, destination), lines 123-125.
Cursor(track, destination) == [track |-> track, destination |-> destination]

\* What a Cursor method gives: the new cursor or an exception.
Step(c, err) == [cursor |-> c, err |-> err]

\* Cursor.back(), lines 127-135.
back(c) ==
    IF c.track # <<>>
    THEN Step(Cursor(SubSeq(c.track, 1, Len(c.track) - 2),
                     prepend(c.destination, c.track[Len(c.track)][1])),
              "none")
    ELSE Step(c, "ValueError")

\* Cursor.forward(), lines 137-145.
forward(c) ==
    IF c.track # <<>> /\ c.destination # <<>>
    THEN LET got == follow_first(c.destination, c.track[Len(c.track)][2]) IN
         IF got.err # "none"
         THEN Step(c, got.err)
         ELSE Step(Cursor(Append(c.track, <<c.destination[1], got.value>>),
                          prepend(c.destination, c.track[Len(c.track)][1])),
                   "none")
    ELSE Step(c, "ValueError")

\* Tracks a caller builds by walking down from the root, and the empty one.
RECURSIVE TracksFrom(_, _)
TracksFrom(track, n) ==
    {track} \cup
        (IF n = 0 THEN {}
         ELSE UNION {TracksFrom(Append(track, <<c, Items[track[Len(track)][2]][c]>>), n - 1) :
                        c \in DOMAIN Items[track[Len(track)][2]]})
Tracks == {<<>>} \cup TracksFrom(<<(<<"$", Root>>)>>, MaxTrack - 1)
Destinations == UNION {[1..n -> Components] : n \in 0..MaxDest}

\* The last Cursor method called: its name, the cursor it was called on and
\* its error; and the same for the call before it.
Moved(op, from, err, prev_op, prev_from, prev_err) ==
    [op |-> op, from |-> from, err |-> err,
     prev_op |-> prev_op, prev_from |-> prev_from, prev_err |-> prev_err]
NoCursor == Cursor(<<>>, <<>>)
NotMoved == Moved("none", NoCursor, "none", "none", NoCursor, "none")

\* ------------------------------------------------------------ state machine
Current == Graph(name_index, type_index, relationships)

\* Record of one call: op, the Node argument, the dependencies in iteration
\* order, the name arguments, the error raised and the value returned.
Call(op, dep, ds, name, other, err, node, ret) ==
    [op |-> op, dep |-> dep, deps |-> ds, name |-> name, other |-> other,
     err |-> err, node |-> node, ret |-> ret]

NoCall == Call("none", NoNode, <<>>, NoName, NoName, "none", NoNode, {})

\* Range of a sequence.
Range(s) == {s[i] : i \in DOMAIN s}

\* Collections of at most MaxDeps distinct objects of S, in every iteration
\* order (a Python set iterates in an order the caller does not control).
Orders(S) ==
    {s \in UNION {[1..k -> S] : k \in 0..MaxDeps} : Cardinality(Range(s)) = Len(s)}

\* The `dependencies` arguments a caller passes.  add_node takes any
\* iterable of objects.  add_dependencies takes a typing.Set[Node] and only
\* adds pairs to a set, so its outcome does not depend on the iteration
\* order: one order per set is kept.
ObjectOrders == Orders(Objects)
NodeOrders == {s \in Orders(Nodes) : \A i \in 1..(Len(s) - 1) : s[i] < s[i + 1]}

\* The graph is replaced by the outcome of a mutating call.
Install(r) ==
    /\ Cardinality(r.g.relationships) <= MaxEdges
    /\ name_index' = r.g.name_index
    /\ type_index' = r.g.type_index
    /\ relationships' = r.g.relationships
    /\ pre' = Current
    /\ UNCHANGED <<extractvars, threadvars, cursorvars>>

Init ==
    /\ name_index = EmptyGraph.name_index
    /\ type_index = EmptyGraph.type_index
    /\ relationships = EmptyGraph.relationships
    /\ last = NoCall
    /\ pre = EmptyGraph
    /\ entity = NoEntity
    /\ extracted = NotExtracted
    /\ threads = AllIdle
    /\ serialized = TRUE
    /\ cursor = NoCursor
    /\ moved = NotMoved

AddNode ==
    /\ last = NoCall
    /\ \E dep \in Nodes, ds \in ObjectOrders :
        LET r == add_node(Current, dep, ds) IN
        /\ Install(r)
        /\ last' = Call("add_node", dep, ds, NoName, NoName, r.err, NoNode, {})

AddDependencies ==
    /\ last = NoCall
    /\ \E name \in Names, ds \in NodeOrders :
        LET r == add_dependencies(Current, name, Range(ds)) IN
        /\ Install(r)
        /\ last' = Call("add_dependencies", NoNode, ds, name, NoName, r.err, NoNode, {})

AddRelationship ==
    /\ last = NoCall
    /\ \E dependent \in Names, dependence \in Names, optimized \in BOOLEAN :
        LET r == add_relationship(Current, dependent, dependence, optimized) IN
        /\ Install(r)
        /\ last' = Call("add_relationship", NoNode, <<>>, dependent, dependence,
                        r.err, NoNode, {})

Query(op, name, a) ==
    /\ last' = Call(op, NoNode, <<>>, name, NoName, a.err, a.node, a.ret)
    /\ pre' = Current
    /\ UNCHANGED <<name_index, type_index, relationships>>
    /\ UNCHANGED <<extractvars, threadvars, cursorvars>>

GetByName ==
    /\ last = NoCall
    /\ \E name \in Names : Query("get_by_name", name, get_by_name(Current, name))

GetDependents ==
    /\ last = NoCall
    /\ \E name \in Names : Query("get_dependents", name, get_dependents(Current, name))

GetDependencies ==
    /\ last = NoCall
    /\ \E name \in Names : Query("get_dependencies", name, get_dependencies(Current, name))

\* The completed call returns (or its exception propagates) to the caller,
\* which may then make the next call.
Return ==
    /\ last # NoCall
    /\ last' = NoCall
    /\ pre' = Current
    /\ UNCHANGED <<name_index, type_index, relationships>>
    /\ UNCHANGED <<extractvars, threadvars, cursorvars>>

Next ==
    \/ AddNode
    \/ AddDependencies
    \/ AddRelationship
    \/ GetByName
    \/ GetDependents
    \/ GetDependencies
    \/ Return

Spec == Init /\ [][Next]_vars

\* A caller hands some callable to extract_dependencies.
InitExtract ==
    /\ name_index = EmptyGraph.name_index
    /\ type_index = EmptyGraph.type_index
    /\ relationships = EmptyGraph.relationships
    /\ last = NoCall
    /\ pre = EmptyGraph
    /\ entity \in Entities
    /\ extracted = NotExtracted
    /\ threads = AllIdle
    /\ serialized = TRUE
    /\ cursor = NoCursor
    /\ moved = NotMoved

Extract ==
    /\ ~extracted.done
    /\ extracted' = Extracted(TRUE, extract_dependencies(entity))
    /\ UNCHANGED entity
    /\ UNCHANGED <<graphvars, threadvars, cursorvars>>

NextExtract == Extract

SpecExtract == InitExtract /\ [][NextExtract]_vars

\* Threads of one host share one graph; the host either serializes the
\* add_node calls with a lock of its own or does not.
InitThreads ==
    /\ name_index = EmptyGraph.name_index
    /\ type_index = EmptyGraph.type_index
    /\ relationships = EmptyGraph.relationships
    /\ last = NoCall
    /\ pre = EmptyGraph
    /\ entity = NoEntity
    /\ extracted = NotExtracted
    /\ threads = AllIdle
    /\ serialized \in BOOLEAN
    /\ cursor = NoCursor
    /\ moved = NotMoved

\* What no line of add_node writes.
ThreadFrame ==
    UNCHANGED <<relationships, last, pre, serialized, extractvars, cursorvars>>

\* Thread t calls add_node(dep) without dependencies; under the host's lock
\* only while no other call is in progress.
Enter(t) ==
    /\ threads[t] = Idle
    /\ serialized => threads = AllIdle
    /\ \E dep \in Nodes : threads' = [threads EXCEPT ![t] = At("119", dep)]
    /\ UNCHANGED <<name_index, type_index>>
    /\ ThreadFrame

\* Line 119: the membership test; a taken name skips to the end of the call.
Line119(t) ==
    /\ threads[t].line = "119"
    /\ LET next == after_119(name_index, threads[t].dep) IN
       threads' = [threads EXCEPT
                       ![t] = IF next = "idle" THEN Idle ELSE At(next, threads[t].dep)]
    /\ UNCHANGED <<name_index, type_index>>
    /\ ThreadFrame

\* Line 120: self.type_index[dep.dependency_type.type].add(dep)
Line120(t) ==
    /\ threads[t].line = "120"
    /\ type_index' = TypeIndexAdd(type_index, TypeOf(threads[t].dep), threads[t].dep)
    /\ threads' = [threads EXCEPT ![t] = At("121", threads[t].dep)]
    /\ UNCHANGED name_index
    /\ ThreadFrame

\* Line 121: self.name_index[dep.name] = dep, and the call returns.
Line121(t) ==
    /\ threads[t].line = "121"
    /\ name_index' = NameIndexSet(name_index, NameOf(threads[t].dep), threads[t].dep)
    /\ threads' = [threads EXCEPT ![t] = Idle]
    /\ UNCHANGED type_index
    /\ ThreadFrame

NextThreads ==
    \/ \E t \in Threads : Enter(t)
    \/ \E t \in Threads : Line119(t)
    \/ \E t \in Threads : Line120(t)
    \/ \E t \in Threads : Line121(t)

SpecThreads == InitThreads /\ [][NextThreads]_vars

\* A caller holds some cursor over the object.
InitCursor ==
    /\ name_index = EmptyGraph.name_index
    /\ type_index = EmptyGraph.type_index
    /\ relationships = EmptyGraph.relationships
    /\ last = NoCall
    /\ pre = EmptyGraph
    /\ entity = NoEntity
    /\ extracted = NotExtracted
    /\ threads = AllIdle
    /\ serialized = TRUE
    /\ cursor \in {Cursor(t, d) : t \in Tracks, d \in Destinations}
    /\ moved = NotMoved

\* The caller replaces its cursor by the one the method returns; after an
\* exception it keeps the one it had.
Move(op, r) ==
    /\ cursor' = r.cursor
    /\ moved' = Moved(op, cursor, r.err, moved.op, moved.from, moved.err)
    /\ UNCHANGED <<graphvars, extractvars, threadvars>>

Forward ==
    /\ Len(cursor.track) < MaxTrack
    /\ Len(cursor.destination) < MaxDest
    /\ Move("forward", forward(cursor))

Back ==
    /\ Len(cursor.destination) < MaxDest
    /\ Move("back", back(cursor))

NextCursor == Forward \/ Back

SpecCursor == InitCursor /\ [][NextCursor]_vars

TypeOK ==
    /\ DOMAIN name_index \subseteq Names
    /\ \A k \in DOMAIN name_index : name_index[k] \in Nodes
    /\ DOMAIN type_index \subseteq Types
    /\ \A t \in DOMAIN type_index : type_index[t] \subseteq Nodes
    /\ relationships \subseteq Nodes \X Objects

\* ------------------------------------------------------------------ claims
\* Vocabulary of the properties below.
Registered == Values(name_index)
Mutators == {"add_node", "add_dependencies", "add_relationship"}
\* The "UnknownNode" class of failures: lookup or link by an unknown name.
UnknownNode == {"KeyError", "AssertionError"}
OwnName(ni, n) == NameOf(n) \in DOMAIN ni /\ ni[NameOf(n)] = n
DepsOf(g, n) == {e[2] : e \in {x \in g.relationships : x[1] = n}}

\* C1 (I2, no dangling edges): in every reachable graph both ends of every
\* pair in relationships are values of name_index.
NoDanglingEdges ==
    \A e \in relationships : e[1] \in Registered /\ e[2] \in Registered

\* C2 (I1, index symmetry): the union of the type_index sets equals the set
\* of name_index values, and every such node is stored under its own name.
IndexSymmetry ==
    /\ TypeUnion(type_index) = Values(name_index)
    /\ \A n \in Values(name_index) : OwnName(name_index, n)

\* C2 witness: two nodes are registered and a further add_node call for an
\* already registered name has just completed.
IndexSymmetryWitness ==
    /\ Cardinality(Registered) >= 2
    /\ last.op = "add_node"
    /\ NameOf(last.dep) \in DOMAIN pre.name_index

\* C3 (I3, idempotent registration): add_node(m) without dependencies, for a
\* node whose name is already registered, raises nothing and leaves
\* name_index, type_index and relationships as they were; the name keeps
\* referencing the node registered first.
IdempotentRegistration ==
    (/\ last.op = "add_node"
     /\ last.deps = <<>>
     /\ NameOf(last.dep) \in DOMAIN pre.name_index)
    => /\ last.err = "none"
       /\ Current = pre
       /\ name_index[NameOf(last.dep)] = pre.name_index[NameOf(last.dep)]

\* C3 witness: a second node object was offered under a name that another
\* object already holds.
IdempotentRegistrationWitness ==
    /\ last.op = "add_node"
    /\ last.deps = <<>>
    /\ NameOf(last.dep) \in DOMAIN pre.name_index
    /\ pre.name_index[NameOf(last.dep)] # last.dep

\* The case of C4: add_node(n, {d1, d2}) with Node objects has completed.
TwoDependenciesAdded ==
    /\ last.op = "add_node"
    /\ Len(last.deps) = 2
    /\ Range(last.deps) \subseteq Nodes

InDependencies(x, y) ==
    LET a == get_dependencies(Current, NameOf(x)) IN a.err = "none" /\ y \in a.ret
InDependents(y, x) ==
    LET a == get_dependents(Current, NameOf(y)) IN a.err = "none" /\ x \in a.ret

\* C5 as stated (query symmetry for all nodes): for all node objects X and
\* Y, Y is in get_dependencies(X.name) iff X is in get_dependents(Y.name).
QuerySymmetryAllNodes ==
    \A x \in Nodes, y \in Nodes : InDependencies(x, y) <=> InDependents(y, x)

\* C5 amended (query symmetry for registered nodes): for all nodes X and Y
\* that are values of name_index, neither query fails and Y is in
\* get_dependencies(X.name) iff X is in get_dependents(Y.name).
QuerySymmetry ==
    \A x \in Registered, y \in Registered :
        /\ get_dependencies(Current, NameOf(x)).err = "none"
        /\ get_dependents(Current, NameOf(y)).err = "none"
        /\ InDependencies(x, y) <=> InDependents(y, x)

\* C5 witness: get_dependents has just answered with a registered dependent
\* of a registered node.
QuerySymmetryWitness ==
    /\ last.op = "get_dependents"
    /\ last.err = "none"
    /\ \E x \in Registered, y \in Registered :
           /\ NameOf(y) = last.name
           /\ x \in last.ret
           /\ InDependencies(x, y)

\* C6 (namespacing): after add_node(A, {dA}) and add_node(B, {dB}), where dA
\* and dB are distinct nodes carrying the same name and A and B are
\* unrelated owners, both dA and dB are registered and each owner's
\* dependency is its own node.
Namespacing ==
    \A A \in Nodes, dA \in Nodes :
        (/\ last.op = "add_node"
         /\ last.err = "none"
         /\ last.deps \in [1..1 -> Nodes]
         /\ <<A, dA>> \in pre.relationships
         /\ OwnName(pre.name_index, A)
         /\ OwnName(pre.name_index, dA)
         /\ NameOf(dA) = NameOf(last.deps[1])
         /\ dA # last.deps[1]
         /\ Cardinality({NameOf(A), NameOf(last.dep), NameOf(dA)}) = 3)
        => /\ dA \in Registered
           /\ last.deps[1] \in Registered
           /\ dA \in DepsOf(Current, A)
           /\ last.deps[1] \in DepsOf(Current, last.dep)

\* C7 (unknown-name failure): get_by_name with an unregistered name, and
\* add_relationship with either name unregistered, fail with an UnknownNode
\* error and leave the graph as it was.
UnknownNameFailure ==
    /\ (last.op = "get_by_name" /\ last.name \notin DOMAIN pre.name_index)
           => last.err \in UnknownNode /\ Current = pre
    /\ (/\ last.op = "add_relationship"
        /\ \/ last.name \notin DOMAIN pre.name_index
           \/ last.other \notin DOMAIN pre.name_index)
           => last.err \in UnknownNode /\ Current = pre

\* C7 witness: add_relationship was called with a registered dependent and
\* an unregistered dependence, and failed.
UnknownNameFailureWitness ==
    /\ last.op = "add_relationship"
    /\ last.name \in DOMAIN pre.name_index
    /\ last.other \notin DOMAIN pre.name_index
    /\ last.err \in UnknownNode

\* C8 (add_dependencies links existing vertices only): for an unregistered
\* name it fails with KeyError and changes nothing; for a registered name it
\* adds exactly the edges (name_index[name], d) and leaves both indexes
\* unchanged.
AddDependenciesLinksOnly ==
    last.op = "add_dependencies"
    => IF last.name \notin DOMAIN pre.name_index
       THEN last.err = "KeyError" /\ Current = pre
       ELSE /\ last.err = "none"
            /\ relationships
                   = pre.relationships
                         \cup {<<pre.name_index[last.name], d>> : d \in Range(last.deps)}
            /\ name_index = pre.name_index
            /\ type_index = pre.type_index

\* C8 witness: add_dependencies succeeded with a dependency that is not a
\* registered node, and that node is still not registered.
AddDependenciesLinksOnlyWitness ==
    /\ last.op = "add_dependencies"
    /\ last.err = "none"
    /\ \E d \in Range(last.deps) :
           /\ NameOf(d) \notin DOMAIN name_index
           /\ <<pre.name_index[last.name], d>> \in relationships

\* C9 (monotonic growth): no step removes or changes a name_index entry,
\* removes a member of a type_index set, or removes a relationship.
MonotonicGrowth ==
    [][/\ \A k \in DOMAIN name_index :
              k \in DOMAIN name_index' /\ name_index'[k] = name_index[k]
       /\ \A t \in DOMAIN type_index :
              t \in DOMAIN type_index' /\ type_index[t] \subseteq type_index'[t]
       /\ relationships \subseteq relationships']_vars

\* C9 witness: a graph with two names and an edge has just been offered,
\* with dependencies, a different node object under a name already taken.
MonotonicGrowthWitness ==
    /\ Cardinality(DOMAIN pre.name_index) >= 2
    /\ pre.relationships # {}
    /\ last.op = "add_node"
    /\ last.deps # <<>>
    /\ NameOf(last.dep) \in DOMAIN pre.name_index
    /\ pre.name_index[NameOf(last.dep)] # last.dep

\* The edges a successful mutating call asks for.
RequestedEdges ==
    IF last.op = "add_node"
    THEN {<<last.dep, d>> : d \in Range(last.deps)}
    ELSE IF last.op = "add_dependencies"
    THEN {<<pre.name_index[last.name], d>> : d \in Range(last.deps)}
    ELSE {<<pre.name_index[last.name], pre.name_index[last.other]>>}

\* C10 (I4, set-collapsing edges): a successful add_relationship(x, y)
\* leaves relationships equal to the previous set plus the pair
\* (name_index[x], name_index[y]), so a second call changes nothing; and
\* any add_node, add_dependencies or add_relationship that only re-adds
\* existing edges leaves relationships unchanged.
SetCollapsingEdges ==
    (last.op \in Mutators /\ last.err = "none")
    => /\ last.op = "add_relationship"
              => relationships = pre.relationships \cup RequestedEdges
       /\ RequestedEdges \subseteq pre.relationships
              => relationships = pre.relationships

\* C10 witness: add_relationship succeeded for a pair that was already in
\* relationships.
SetCollapsingEdgesWitness ==
    /\ last.op = "add_relationship"
    /\ last.err = "none"
    /\ RequestedEdges \subseteq pre.relationships
    /\ relationships # {}

\* C11 (get_dependents): for a registered name the call returns exactly the
\* nodes d with (d, name_index[name]) in relationships and leaves the graph
\* as it was; for an unregistered name it fails.
GetDependentsExact ==
    last.op = "get_dependents"
    => /\ Current = pre
       /\ IF last.name \in DOMAIN pre.name_index
          THEN /\ last.err = "none"
               /\ last.ret = {d \in Objects :
                                 <<d, pre.name_index[last.name]>> \in relationships}
          ELSE last.err \in UnknownNode

\* C11 witness: get_dependents answered with a dependent while the graph
\* also holds an edge to another node object of the same name.
GetDependentsExactWitness ==
    /\ last.op = "get_dependents"
    /\ last.err = "none"
    /\ last.ret # {}
    /\ \E e \in relationships :
           NameOf(e[2]) = last.name /\ e[2] # name_index[last.name]

\* C14 (add_relationship frame): with both names registered, the call adds
\* exactly the pair (name_index[a], name_index[b]), leaves name_index and
\* type_index unchanged, and keeps I2 if I2 held before.
AddRelationshipFrame ==
    (/\ last.op = "add_relationship"
     /\ last.name \in DOMAIN pre.name_index
     /\ last.other \in DOMAIN pre.name_index)
    => /\ last.err = "none"
       /\ relationships
              = pre.relationships
                    \cup {<<pre.name_index[last.name], pre.name_index[last.other]>>}
       /\ name_index = pre.name_index
       /\ type_index = pre.type_index
       /\ (\A e \in pre.relationships :
               e[1] \in Values(pre.name_index) /\ e[2] \in Values(pre.name_index))
              => \A e \in relationships : e[1] \in Registered /\ e[2] \in Registered

\* C14 witness: add_relationship added a new pair between two different
\* registered nodes of a graph without dangling edges.
AddRelationshipFrameWitness ==
    /\ last.op = "add_relationship"
    /\ last.err = "none"
    /\ last.name # last.other
    /\ relationships # pre.relationships
    /\ \A e \in relationships : e[1] \in Registered /\ e[2] \in Registered

\* The dependencies of the last add_node call that precede the first one
\* that is not a Node, and the call's failure at that one.
Processed ==
    LET bad == {i \in DOMAIN last.deps : last.deps[i] = NotANode}
    IN IF bad = {} THEN last.deps
       ELSE SubSeq(last.deps, 1, (CHOOSE i \in bad : \A j \in bad : i <= j) - 1)
AddNodeFailed == last.op = "add_node" /\ last.err # "none"

\* C15 (partial failure of add_node): a call that fails at some dependency
\* is not rolled back: the names of n and of every dependency processed
\* before the failing one stay registered, with their edges; nothing after
\* the failing one is added; and the graph left satisfies I1 and I2.
PartialFailure ==
    AddNodeFailed
    => /\ \A d \in {last.dep} \cup Range(Processed) : NameOf(d) \in DOMAIN name_index
       /\ \A k \in DOMAIN pre.name_index :
              k \in DOMAIN name_index /\ name_index[k] = pre.name_index[k]
       /\ relationships
              = pre.relationships \cup {<<last.dep, d>> : d \in Range(Processed)}
       /\ Values(name_index)
              \subseteq Values(pre.name_index) \cup {last.dep} \cup Range(Processed)
       /\ TypeUnion(type_index) = Values(name_index)
       /\ \A n \in Values(name_index) : OwnName(name_index, n)
       /\ \A e \in relationships : e[1] \in Registered /\ e[2] \in Registered

\* The case of C16: a self-loop was requested for a registered node,
\* through add_node(a, {a}) or add_relationship(a.name, a.name).
SelfLoopNode ==
    IF last.op = "add_node" THEN last.dep ELSE pre.name_index[last.name]
SelfLoopRequested ==
    \/ /\ last.op = "add_node"
       /\ last.deps = <<last.dep>>
       /\ last.dep \in Values(pre.name_index)
    \/ /\ last.op = "add_relationship"
       /\ last.name = last.other
       /\ last.name \in DOMAIN pre.name_index

\* C16 (self-loops): for a registered node a, add_node(a, {a}) and
\* add_relationship(a.name, a.name) succeed and add the pair (a, a); a is
\* then in get_dependencies(a.name) and in get_dependents(a.name), and the
\* indexes hold a exactly once.
SelfLoops ==
    SelfLoopRequested
    => LET a == SelfLoopNode IN
       /\ last.err = "none"
       /\ relationships = pre.relationships \cup {<<a, a>>}
       /\ InDependencies(a, a)
       /\ InDependents(a, a)
       /\ Cardinality({k \in DOMAIN name_index : name_index[k] = a}) = 1
       /\ Cardinality({t \in DOMAIN type_index : a \in type_index[t]}) = 1

\* C16 witness: add_relationship(a.name, a.name) has just added (a, a).
SelfLoopsWitness ==
    /\ last.op = "add_relationship"
    /\ last.name = last.other
    /\ last.err = "none"
    /\ <<name_index[last.name], name_index[last.name]>>
           \in relationships \ pre.relationships

\* self.type_index[t] as a read of the defaultdict: the empty set for a
\* type that has no bucket yet.
Bucket(t) == IF t \in DOMAIN type_index THEN type_index[t] ELSE {}

\* C17 (type buckets): for every type t, type_index[t] is exactly the set of
\* registered nodes whose dependency_type.type is t; so every registered
\* node is in exactly one bucket and no two nodes in type_index share a name.
TypeBuckets ==
    /\ \A t \in Types : Bucket(t) = {n \in Registered : TypeOf(n) = t}
    /\ \A n \in Registered : Cardinality({t \in Types : n \in Bucket(t)}) = 1
    /\ \A m \in TypeUnion(type_index), n \in TypeUnion(type_index) :
           NameOf(m) = NameOf(n) => m = n

\* C17 witness: one bucket holds two nodes, and a node of a taken name was
\* offered again.
TypeBucketsWitness ==
    /\ \E t \in Types : Cardinality(Bucket(t)) >= 2
    /\ last.op = "add_node"
    /\ NameOf(last.dep) \in DOMAIN pre.name_index
    /\ last.dep \notin Registered

\* C12 (extraction inference): for an entity without __dependencies__ the
\* result has exactly one entry per formal parameter; the entry's type is
\* the parameter's annotation, and its factory is the default's factory when
\* the default is a Dependency, the annotation otherwise.
ExtractionInference ==
    (extracted.done /\ ~entity.has_dependencies)
    => /\ DOMAIN extracted.deps = DOMAIN entity.parameters
       /\ \A p \in DOMAIN entity.parameters :
              LET par == entity.parameters[p] IN
              /\ extracted.deps[p].type = par.annotation
              /\ extracted.deps[p].factory
                     = IF par.default \in {DependencyDefault(Dependency(f, t)) :
                                              f \in Factories, t \in TypeObjects}
                       THEN par.default.factory
                       ELSE par.annotation

\* C12 witness: the example of the claim, `a: int` and
\* `b: int = Dependency(factory=make_b, type=int)`.
ExtractionInferenceWitness ==
    /\ extracted.done
    /\ entity = Entity(FALSE, <<>>,
                       <<Parameter("int", NoDefault),
                         Parameter("int", DependencyDefault(Dependency("make_b", "int")))>>)
    /\ extracted.deps = <<Dependency("int", "int"), Dependency("make_b", "int")>>

\* C13 (override precedence): for an entity with __dependencies__ the result
\* is that mapping, whatever the parameters are.
ExtractionOverride ==
    (extracted.done /\ entity.has_dependencies)
    => extracted.deps = entity.dependencies

\* C13 witness: the explicit mapping was returned for an entity whose
\* signature would have given another one.
ExtractionOverrideWitness ==
    /\ extracted.done
    /\ entity.has_dependencies
    /\ entity.parameters # <<>>
    /\ extracted.deps = entity.dependencies
    /\ DOMAIN entity.dependencies # DOMAIN entity.parameters

\* Two different node objects of one name are both in type_index, so that
\* name_index holds only one of them.
BothTwinsIndexed ==
    \E m \in TypeUnion(type_index), n \in TypeUnion(type_index) :
        m # n /\ NameOf(m) = NameOf(n)

\* C18 (need for external serialization): when every add_node call runs
\* atomically, no state has two nodes of one name in type_index, and I1
\* holds whenever no call is in progress; without the lock such a state is
\* reachable (the witness).
SerializedKeepsIndexSymmetry ==
    serialized
    => /\ ~BothTwinsIndexed
       /\ threads = AllIdle
              => /\ TypeUnion(type_index) = Values(name_index)
                 /\ \A n \in Values(name_index) : OwnName(name_index, n)

\* C18 witness: two unserialized calls have interleaved and returned; both
\* nodes are in type_index, name_index holds one of them, I1 is violated.
SerializedKeepsIndexSymmetryWitness ==
    /\ ~serialized
    /\ threads = AllIdle
    /\ BothTwinsIndexed
    /\ TypeUnion(type_index) # Values(name_index)

\* C19 (cursor navigation round trip): on a cursor with non-empty track and
\* destination, forward() appends the one entry (first destination
\* component, value reached from the focus) and removes that component from
\* destination; back() removes the last track entry and prepends its
\* component to destination; forward() then back() gives the original.
CursorRoundTrip ==
    /\ (moved.op = "forward" /\ moved.err = "none")
           => LET c == moved.from.destination[1]
                  focus == moved.from.track[Len(moved.from.track)][2]
              IN /\ cursor.track = Append(moved.from.track, <<c, getter(focus, c).value>>)
                 /\ cursor.destination = Tail(moved.from.destination)
    /\ (moved.op = "back" /\ moved.err = "none" /\ moved.from.destination # <<>>)
           => LET n == Len(moved.from.track) IN
              /\ cursor.track = SubSeq(moved.from.track, 1, n - 1)
              /\ cursor.destination
                     = <<moved.from.track[n][1]>> \o moved.from.destination
    /\ (/\ moved.op = "back" /\ moved.err = "none"
        /\ moved.prev_op = "forward" /\ moved.prev_err = "none")
           => cursor = moved.prev_from

====
